---------------------------- MODULE Spec2Model ----------------------------
(***************************************************************************)
(* usaddress/assembly.py: normalize_address (the reconciliation of a tag   *)
(* mapping into an Address) and street_to_abbreviated (the USPS suffix     *)
(* abbreviation loop).  Python strings are sequences of one-character      *)
(* strings, so that substring search, replace, strip and upper are         *)
(* computed character by character as Python computes them.                *)
(***************************************************************************)
EXTENDS Naturals, Sequences, FiniteSets

VARIABLES
  pc,          \* position in normalize_address / street_to_abbreviated
  tagset,      \* normalize_address: tags[0], the (tag, fragment) pairs in iteration order
  add_type,    \* normalize_address: tags[1], the address type label
  idx,         \* normalize_address: position of the for loop in tagset (1-based)
  loc,         \* normalize_address: the locals add_number ... zipc
  result,      \* normalize_address: the Address returned or the AddressUnparsable raised
  arg,         \* street_to_abbreviated: the argument of the current call
  street,      \* street_to_abbreviated: local street
  old_street,  \* street_to_abbreviated: local old_street
  keep_going,  \* street_to_abbreviated: local keep_going
  passes,      \* street_to_abbreviated: iterations of the while loop made by the current call
  ret,         \* street_to_abbreviated: the value returned
  calls        \* street_to_abbreviated: calls completed before the current one

nvars == <<tagset, add_type, idx, loc, result>>
vars == <<pc, tagset, add_type, idx, loc, result,
          arg, street, old_street, keep_going, passes, ret, calls>>

\* Python's None: a value no string (sequence of characters) equals.
None == <<"None">>

-----------------------------------------------------------------------------
(* str operations *)

LowerAlpha == <<"a","b","c","d","e","f","g","h","i","j","k","l","m","n","o","p","q","r","s","t","u","v","w","x","y","z">>
UpperAlpha == <<"A","B","C","D","E","F","G","H","I","J","K","L","M","N","O","P","Q","R","S","T","U","V","W","X","Y","Z">>
Digits == {"0", "1", "2", "3", "4", "5", "6", "7", "8", "9"}
Whitespace == {" ", "\t", "\n", "\r", "\f"}

\* str.upper() on one character
UpperChar(c) ==
  IF \E k \in 1..Len(LowerAlpha) : LowerAlpha[k] = c
    THEN UpperAlpha[CHOOSE k \in 1..Len(LowerAlpha) : LowerAlpha[k] = c]
    ELSE c

\* str.upper()
RECURSIVE Upper(_)
Upper(s) == IF s = <<>> THEN <<>> ELSE <<UpperChar(s[1])>> \o Upper(Tail(s))

\* sub in s, for a non-empty sub
Contains(s, sub) ==
  \E k \in 1..(Len(s) - Len(sub) + 1) :
     s[k] = sub[1] /\ SubSeq(s, k, k + Len(sub) - 1) = sub

\* s.replace(old, new), for a non-empty old: every non-overlapping
\* occurrence, leftmost first
RECURSIVE Replace(_, _, _)
Replace(s, old, new) ==
  IF Len(s) < Len(old) THEN s
  ELSE IF SubSeq(s, 1, Len(old)) = old
    THEN new \o Replace(SubSeq(s, Len(old) + 1, Len(s)), old, new)
    ELSE <<s[1]>> \o Replace(Tail(s), old, new)

\* s.strip()
RECURSIVE LStrip(_)
LStrip(s) == IF s # <<>> /\ s[1] \in Whitespace THEN LStrip(Tail(s)) ELSE s
RECURSIVE RStrip(_)
RStrip(s) ==
  IF s # <<>> /\ s[Len(s)] \in Whitespace THEN RStrip(SubSeq(s, 1, Len(s) - 1)) ELSE s
Strip(s) == RStrip(LStrip(s))

-----------------------------------------------------------------------------
(* street_to_abbreviated *)

\* The dict literal, in its written order (the order a for loop over it takes).
mapping == <<
  <<<<"W","A","Y">>, <<"W","A","Y">>>>,
  <<<<"B","Y","P","S","S">>, <<"B","Y","P">>>>,
  <<<<"W","L","S">>, <<"W","L","S">>>>,
  <<<<"C","P","E">>, <<"C","P","E">>>>,
  <<<<"O","R","C","H","R","D">>, <<"O","R","C","H">>>>,
  <<<<"C","R","E","S","C","E","N","T">>, <<"C","R","E","S">>>>,
  <<<<"F","A","L","L">>, <<"F","A","L","L">>>>,
  <<<<"B","E","A","C","H">>, <<"B","C","H">>>>,
  <<<<"M","S","S","N">>, <<"M","S","N">>>>,
  <<<<"K","Y","S">>, <<"K","Y">>>>,
  <<<<"S","P","G">>, <<"S","P","G">>>>,
  <<<<"J","C","T","N">>, <<"J","C","T">>>>,
  <<<<"T","U","N","E","L">>, <<"T","U","N","L">>>>,
  <<<<"B","Y","U">>, <<"B","Y","U">>>>,
  <<<<"P","A","R","K","W","A","Y","S">>, <<"P","K","Y">>>>,
  <<<<"C","O","V","E">>, <<"C","V">>>>,
  <<<<"B","Y","P">>, <<"B","Y","P">>>>,
  <<<<"S","P","R","I","N","G","S">>, <<"S","P","G","S">>>>,
  <<<<"I","S","L","A","N","D","S">>, <<"I","S","S">>>>,
  <<<<"R","I","V","E","R">>, <<"R","I","V">>>>,
  <<<<"S","P","U","R">>, <<"S","P","U","R">>>>,
  <<<<"J","C","T","S">>, <<"J","C","T">>>>,
  <<<<"V","I","A","D","C","T">>, <<"V","I","A">>>>,
  <<<<"P","I","N","E","S">>, <<"P","N","E","S">>>>,
  <<<<"E","X","P","R","E","S","S">>, <<"E","X","P","Y">>>>,
  <<<<"M","N","R","S">>, <<"M","N","R">>>>,
  <<<<"T","U","N","L","S">>, <<"T","U","N","L">>>>,
  <<<<"G","R","O","V","E","S">>, <<"G","R","V">>>>,
  <<<<"S","U","M","I","T","T">>, <<"S","M","T">>>>,
  <<<<"O","V","L">>, <<"O","V","A","L">>>>,
  <<<<"V","I","E","W">>, <<"V","W">>>>,
  <<<<"C","R","S","N","T">>, <<"C","R","E","S">>>>,
  <<<<"P","K","W","Y","S">>, <<"P","K","Y">>>>,
  <<<<"T","R","K">>, <<"T","R","A","K">>>>,
  <<<<"S","Q","U","A","R","E">>, <<"S","Q">>>>,
  <<<<"C","S","W","Y">>, <<"C","S","W","Y">>>>,
  <<<<"C","M","P">>, <<"C","P">>>>,
  <<<<"B","P","S","S">>, <<"B","Y","P">>>>,
  <<<<"C","E","N","T","R">>, <<"C","T","R">>>>,
  <<<<"V","L","G">>, <<"V","L","G">>>>,
  <<<<"V","L","Y">>, <<"V","L","Y">>>>,
  <<<<"F","R","D">>, <<"F","R","D">>>>,
  <<<<"G","R","V">>, <<"G","R","V">>>>,
  <<<<"F","L","A","T">>, <<"F","L","T">>>>,
  <<<<"L","O","A","F">>, <<"L","F">>>>,
  <<<<"J","C","T","N","S">>, <<"J","C","T">>>>,
  <<<<"I","N","L","E","T">>, <<"I","N","L","T">>>>,
  <<<<"U","N","I","O","N">>, <<"U","N">>>>,
  <<<<"B","A","Y","O","O">>, <<"B","Y","U">>>>,
  <<<<"D","R","I","V","E","S">>, <<"D","R">>>>,
  <<<<"B","A","Y","O","U">>, <<"B","Y","U">>>>,
  <<<<"G","R","N">>, <<"G","R","N">>>>,
  <<<<"F","E","R","R","Y">>, <<"F","R","Y">>>>,
  <<<<"T","R","C","E">>, <<"T","R","C","E">>>>,
  <<<<"B","L","F">>, <<"B","L","F">>>>,
  <<<<"B","Y","P","A","S">>, <<"B","Y","P">>>>,
  <<<<"M","L">>, <<"M","L">>>>,
  <<<<"R","A","D","L">>, <<"R","A","D","L">>>>,
  <<<<"H","L","S">>, <<"H","L","S">>>>,
  <<<<"V","W","S">>, <<"V","W">>>>,
  <<<<"M","T">>, <<"M","T">>>>,
  <<<<"G","R","D","N">>, <<"G","D","N","S">>>>,
  <<<<"F","T">>, <<"F","T">>>>,
  <<<<"G","L","N">>, <<"G","L","N">>>>,
  <<<<"C","T","S">>, <<"C","T","S">>>>,
  <<<<"S","M","T">>, <<"S","M","T">>>>,
  <<<<"K","N","O","L">>, <<"K","N","L","S">>>>,
  <<<<"S","T","A","T","I","O","N">>, <<"S","T","A">>>>,
  <<<<"B","E","N","D">>, <<"B","N","D">>>>,
  <<<<"C","O","R","N","E","R">>, <<"C","O","R">>>>,
  <<<<"P","O","I","N","T">>, <<"P","T">>>>,
  <<<<"M","D","W">>, <<"M","D","W","S">>>>,
  <<<<"B","U","R","G","S">>, <<"B","G">>>>,
  <<<<"E","S","T","A","T","E">>, <<"E","S","T">>>>,
  <<<<"C","R","S","E","N","T">>, <<"C","R","E","S">>>>,
  <<<<"C","O","R","N","E","R","S">>, <<"C","O","R","S">>>>,
  <<<<"M","O","U","N","T">>, <<"M","T">>>>,
  <<<<"M","N","T","A","I","N">>, <<"M","T","N">>>>,
  <<<<"M","E","D","O","W","S">>, <<"M","D","W","S">>>>,
  <<<<"S","P","R","N","G","S">>, <<"S","P","G","S">>>>,
  <<<<"T","U","R","N","P","I","K","E">>, <<"T","P","K","E">>>>,
  <<<<"C","R","E","E","K">>, <<"C","R","K">>>>,
  <<<<"S","Q">>, <<"S","Q">>>>,
  <<<<"S","T">>, <<"S","T">>>>,
  <<<<"A","L","Y">>, <<"A","L","Y">>>>,
  <<<<"R","O","A","D","S">>, <<"R","D">>>>,
  <<<<"R","A","D","I","E","L">>, <<"R","A","D","L">>>>,
  <<<<"T","R","L","S">>, <<"T","R","L">>>>,
  <<<<"R","I","D","G","E">>, <<"R","D","G">>>>,
  <<<<"F","O","R","E","S","T","S">>, <<"F","R","S","T">>>>,
  <<<<"G","R","E","E","N">>, <<"G","R","N">>>>,
  <<<<"C","A","N">>, <<"C","Y","N">>>>,
  <<<<"L","F">>, <<"L","F">>>>,
  <<<<"G","A","R","D","N">>, <<"G","D","N","S">>>>,
  <<<<"V","D","C","T">>, <<"V","I","A">>>>,
  <<<<"L","N">>, <<"L","N">>>>,
  <<<<"A","V","N">>, <<"A","V","E">>>>,
  <<<<"B","L","U","F","F">>, <<"B","L","F">>>>,
  <<<<"C","L","I","F","F","S">>, <<"C","L","F","S">>>>,
  <<<<"S","T","R","A","V","N">>, <<"S","T","R","A">>>>,
  <<<<"F","O","R","K">>, <<"F","R","K">>>>,
  <<<<"S","T","A">>, <<"S","T","A">>>>,
  <<<<"S","T","R","A","V","E">>, <<"S","T","R","A">>>>,
  <<<<"K","E","Y","S">>, <<"K","Y">>>>,
  <<<<"S","T","N">>, <<"S","T","A">>>>,
  <<<<"R","A","N","C","H">>, <<"R","N","C","H">>>>,
  <<<<"H","G","T","S">>, <<"H","T","S">>>>,
  <<<<"R","E","S","T">>, <<"R","S","T">>>>,
  <<<<"F","O","R","D">>, <<"F","R","D">>>>,
  <<<<"F","R","W","A","Y">>, <<"F","W","Y">>>>,
  <<<<"C","R","S","S","N","G">>, <<"X","I","N","G">>>>,
  <<<<"C","N","T","R">>, <<"C","T","R">>>>,
  <<<<"S","T","R">>, <<"S","T">>>>,
  <<<<"K","N","O","L","L">>, <<"K","N","L","S">>>>,
  <<<<"F","O","R","T">>, <<"F","T">>>>,
  <<<<"B","O","U","L">>, <<"B","L","V","D">>>>,
  <<<<"H","A","V","E","N">>, <<"H","V","N">>>>,
  <<<<"N","C","K">>, <<"N","C","K">>>>,
  <<<<"R","S","T">>, <<"R","S","T">>>>,
  <<<<"P","I","K","E","S">>, <<"P","I","K","E">>>>,
  <<<<"G","L","E","N","S">>, <<"G","L","N">>>>,
  <<<<"S","Q","R","E">>, <<"S","Q">>>>,
  <<<<"R","A","P","I","D">>, <<"R","P","D","S">>>>,
  <<<<"P","K","W","A","Y">>, <<"P","K","Y">>>>,
  <<<<"L","K">>, <<"L","K">>>>,
  <<<<"G","A","R","D","E","N","S">>, <<"G","D","N","S">>>>,
  <<<<"P","I","K","E">>, <<"P","I","K","E">>>>,
  <<<<"R","A","D">>, <<"R","A","D","L">>>>,
  <<<<"E","X","T","S">>, <<"E","X","T">>>>,
  <<<<"B","O","T","T","O","M">>, <<"B","T","M">>>>,
  <<<<"S","T","R","A","V">>, <<"S","T","R","A">>>>,
  <<<<"F","R","R","Y">>, <<"F","R","Y">>>>,
  <<<<"L","C","K","S">>, <<"L","C","K","S">>>>,
  <<<<"C","N","Y","N">>, <<"C","Y","N">>>>,
  <<<<"R","D">>, <<"R","D">>>>,
  <<<<"P","R","T">>, <<"P","R","T">>>>,
  <<<<"P","R","R">>, <<"P","R">>>>,
  <<<<"E","X","T","N">>, <<"E","X","T">>>>,
  <<<<"R","O","A","D">>, <<"R","D">>>>,
  <<<<"C","R","S","E">>, <<"C","R","S","E">>>>,
  <<<<"T","P","K">>, <<"T","P","K","E">>>>,
  <<<<"S","H","O","A","R","S">>, <<"S","H","R","S">>>>,
  <<<<"V","I","A">>, <<"V","I","A">>>>,
  <<<<"X","I","N","G">>, <<"X","I","N","G">>>>,
  <<<<"S","T","R","E","M","E">>, <<"S","T","R","M">>>>,
  <<<<"L","A","K","E">>, <<"L","K">>>>,
  <<<<"T","R","A","I","L">>, <<"T","R","L">>>>,
  <<<<"R","A","D","I","A","L">>, <<"R","A","D","L">>>>,
  <<<<"E","X","P","R","E","S","S","W","A","Y">>, <<"E","X","P","Y">>>>,
  <<<<"J","U","N","C","T","I","O","N","S">>, <<"J","C","T">>>>,
  <<<<"C","L","I","F","F">>, <<"C","L","F","S">>>>,
  <<<<"C","N","T","E","R">>, <<"C","T","R">>>>,
  <<<<"T","R","A","F","F","I","C","W","A","Y">>, <<"T","R","F","Y">>>>,
  <<<<"M","E","A","D","O","W","S">>, <<"M","D","W","S">>>>,
  <<<<"H","A","R","B","O","R","S">>, <<"H","B","R">>>>,
  <<<<"M","O","U","N","T","A","I","N">>, <<"M","T","N">>>>,
  <<<<"G","R","E","E","N","S">>, <<"G","R","N">>>>,
  <<<<"A","N","N","X">>, <<"A","N","X">>>>,
  <<<<"C","E","N">>, <<"C","T","R">>>>,
  <<<<"P","K","Y">>, <<"P","K","Y">>>>,
  <<<<"F","A","L","L","S">>, <<"F","L","S">>>>,
  <<<<"S","T","R","V","N">>, <<"S","T","R","A">>>>,
  <<<<"B","R","N","C","H">>, <<"B","R">>>>,
  <<<<"H","I","L","L">>, <<"H","L">>>>,
  <<<<"V","I","L","L","A","G","E">>, <<"V","L","G">>>>,
  <<<<"P","L","N","S">>, <<"P","L","N","S">>>>,
  <<<<"S","H","R">>, <<"S","H","R">>>>,
  <<<<"M","I","S","S","N">>, <<"M","S","N">>>>,
  <<<<"F","O","R","G">>, <<"F","R","G">>>>,
  <<<<"P","L","A","Z","A">>, <<"P","L","Z">>>>,
  <<<<"E","X","P","Y">>, <<"E","X","P","Y">>>>,
  <<<<"S","H","R","S">>, <<"S","H","R","S">>>>,
  <<<<"H","W","A","Y">>, <<"H","W","Y">>>>,
  <<<<"S","H","L">>, <<"S","H","L">>>>,
  <<<<"H","I","G","H","W","A","Y">>, <<"H","W","Y">>>>,
  <<<<"G","L","E","N">>, <<"G","L","N">>>>,
  <<<<"S","H","O","R","E","S">>, <<"S","H","R","S">>>>,
  <<<<"M","O","U","N","T","I","N">>, <<"M","T","N">>>>,
  <<<<"C","R","E","S">>, <<"C","R","E","S">>>>,
  <<<<"C","A","N","Y","O","N">>, <<"C","Y","N">>>>,
  <<<<"L","O","O","P">>, <<"L","O","O","P">>>>,
  <<<<"F","R","K","S">>, <<"F","R","K","S">>>>,
  <<<<"B","T","M">>, <<"B","T","M">>>>,
  <<<<"C","E","N","T","E","R","S">>, <<"C","T","R">>>>,
  <<<<"C","O","U","R","T">>, <<"C","T">>>>,
  <<<<"I","S","S">>, <<"I","S","S">>>>,
  <<<<"S","P","R","I","N","G">>, <<"S","P","G">>>>,
  <<<<"T","U","N","L">>, <<"T","U","N","L">>>>,
  <<<<"H","A","R","B","R">>, <<"H","B","R">>>>,
  <<<<"L","A","K","E","S">>, <<"L","K","S">>>>,
  <<<<"C","O","U","R","T","S">>, <<"C","T","S">>>>,
  <<<<"L","A","N","E">>, <<"L","N">>>>,
  <<<<"B","O","T","T","M">>, <<"B","T","M">>>>,
  <<<<"J","C","T","I","O","N">>, <<"J","C","T">>>>,
  <<<<"E","X","P","R">>, <<"E","X","P","Y">>>>,
  <<<<"S","T","R","E","E","T","S">>, <<"S","T">>>>,
  <<<<"E","X","P","W">>, <<"E","X","P","Y">>>>,
  <<<<"M","I","S","S","I","O","N">>, <<"M","S","N">>>>,
  <<<<"C","A","U","S","E","W","A","Y">>, <<"C","S","W","Y">>>>,
  <<<<"V","I","L","L","I","A","G","E">>, <<"V","L","G">>>>,
  <<<<"G","A","T","E","W","Y">>, <<"G","T","W","Y">>>>,
  <<<<"A","V","N","U">>, <<"A","V","E">>>>,
  <<<<"F","R","G">>, <<"F","R","G">>>>,
  <<<<"M","O","U","N","T","A","I","N","S">>, <<"M","T","N">>>>,
  <<<<"F","R","K">>, <<"F","R","K">>>>,
  <<<<"C","L","F">>, <<"C","L","F","S">>>>,
  <<<<"C","L","B">>, <<"C","L","B">>>>,
  <<<<"T","R","K","S">>, <<"T","R","A","K">>>>,
  <<<<"F","R","T">>, <<"F","T">>>>,
  <<<<"F","R","Y">>, <<"F","R","Y">>>>,
  <<<<"B","O","U","L","V">>, <<"B","L","V","D">>>>,
  <<<<"I","S","L","N","D","S">>, <<"I","S","S">>>>,
  <<<<"H","V","N">>, <<"H","V","N">>>>,
  <<<<"K","E","Y">>, <<"K","Y">>>>,
  <<<<"K","Y">>, <<"K","Y">>>>,
  <<<<"F","L","T","S">>, <<"F","L","T">>>>,
  <<<<"B","R","I","D","G","E">>, <<"B","R","G">>>>,
  <<<<"D","L">>, <<"D","L">>>>,
  <<<<"D","M">>, <<"D","M">>>>,
  <<<<"E","X","T","E","N","S","I","O","N">>, <<"E","X","T">>>>,
  <<<<"L","O","D","G">>, <<"L","D","G">>>>,
  <<<<"V","I","S","T","A">>, <<"V","I","S">>>>,
  <<<<"B","P","S">>, <<"B","Y","P">>>>,
  <<<<"E","S","T","A","T","E","S">>, <<"E","S","T">>>>,
  <<<<"I","S","L","N","D">>, <<"I","S">>>>,
  <<<<"D","V">>, <<"D","V">>>>,
  <<<<"P","A","T","H">>, <<"P","A","T","H">>>>,
  <<<<"D","R">>, <<"D","R">>>>,
  <<<<"H","I","G","H","W","Y">>, <<"H","W","Y">>>>,
  <<<<"V","A","L","L","E","Y","S">>, <<"V","L","Y">>>>,
  <<<<"C","A","M","P">>, <<"C","P">>>>,
  <<<<"R","P","D">>, <<"R","P","D","S">>>>,
  <<<<"L","O","O","P","S">>, <<"L","O","O","P">>>>,
  <<<<"C","Y","N">>, <<"C","Y","N">>>>,
  <<<<"R","A","P","I","D","S">>, <<"R","P","D","S">>>>,
  <<<<"H","O","L","W">>, <<"H","O","L","W">>>>,
  <<<<"R","N","C","H","S">>, <<"R","N","C","H">>>>,
  <<<<"H","O","L","L","O","W">>, <<"H","O","L","W">>>>,
  <<<<"M","L","S">>, <<"M","L","S">>>>,
  <<<<"V","A","L","L","Y">>, <<"V","L","Y">>>>,
  <<<<"M","I","L","L">>, <<"M","L">>>>,
  <<<<"S","T","R","V","N","U","E">>, <<"S","T","R","A">>>>,
  <<<<"A","N","N","E","X">>, <<"A","N","X">>>>,
  <<<<"P","N","E","S">>, <<"P","N","E","S">>>>,
  <<<<"T","U","N","N","L">>, <<"T","U","N","L">>>>,
  <<<<"I","S","L","E","S">>, <<"I","S","L","E">>>>,
  <<<<"L","G","T">>, <<"L","G","T">>>>,
  <<<<"C","I","R">>, <<"C","I","R">>>>,
  <<<<"M","E","A","D","O","W">>, <<"M","D","W","S">>>>,
  <<<<"T","R","A","I","L","S">>, <<"T","R","L">>>>,
  <<<<"E","X","T">>, <<"E","X","T">>>>,
  <<<<"S","T","R","E","E","T">>, <<"S","T">>>>,
  <<<<"W","E","L","L","S">>, <<"W","L","S">>>>,
  <<<<"E","X","P">>, <<"E","X","P","Y">>>>,
  <<<<"B","L","V","D">>, <<"B","L","V","D">>>>,
  <<<<"W","Y">>, <<"W","A","Y">>>>,
  <<<<"C","I","R","C","L","E","S">>, <<"C","I","R">>>>,
  <<<<"R","I","V">>, <<"R","I","V">>>>,
  <<<<"G","R","D","E","N">>, <<"G","D","N","S">>>>,
  <<<<"T","U","N","N","E","L","S">>, <<"T","U","N","L">>>>,
  <<<<"P","A","T","H","S">>, <<"P","A","T","H">>>>,
  <<<<"K","N","L">>, <<"K","N","L","S">>>>,
  <<<<"P","A","R","K">>, <<"P","A","R","K">>>>,
  <<<<"V","I","L","L","A","G","E","S">>, <<"V","L","G">>>>,
  <<<<"P","A","R","K","S">>, <<"P","A","R","K">>>>,
  <<<<"T","R","A","C","K","S">>, <<"T","R","A","K">>>>,
  <<<<"B","L","U","F">>, <<"B","L","F">>>>,
  <<<<"P","A","S","S">>, <<"P","A","S","S">>>>,
  <<<<"B","N","D">>, <<"B","N","D">>>>,
  <<<<"G","R","D","N","S">>, <<"G","D","N","S">>>>,
  <<<<"R","D","G","S">>, <<"R","D","G">>>>,
  <<<<"L","N","D","G">>, <<"L","N","D","G">>>>,
  <<<<"L","A","N","D","I","N","G">>, <<"L","N","D","G">>>>,
  <<<<"R","D","G","E">>, <<"R","D","G">>>>,
  <<<<"C","I","R","C","L","E">>, <<"C","I","R">>>>,
  <<<<"C","R","T">>, <<"C","T">>>>,
  <<<<"L","I","G","H","T">>, <<"L","G","T">>>>,
  <<<<"V","L","Y","S">>, <<"V","L","Y">>>>,
  <<<<"F","R","E","E","W","A","Y">>, <<"F","W","Y">>>>,
  <<<<"S","H","O","R","E">>, <<"S","H","R">>>>,
  <<<<"C","R","K">>, <<"C","R","K">>>>,
  <<<<"P","O","R","T">>, <<"P","R","T">>>>,
  <<<<"S","P","N","G","S">>, <<"S","P","G","S">>>>,
  <<<<"P","R">>, <<"P","R">>>>,
  <<<<"L","D","G">>, <<"L","D","G">>>>,
  <<<<"P","T">>, <<"P","T">>>>,
  <<<<"F","I","E","L","D","S">>, <<"F","L","D","S">>>>,
  <<<<"D","R","I","V">>, <<"D","R">>>>,
  <<<<"H","A","V","N">>, <<"H","V","N">>>>,
  <<<<"M","A","L","L">>, <<"M","A","L","L">>>>,
  <<<<"B","Y","P","A","S","S">>, <<"B","Y","P">>>>,
  <<<<"P","K">>, <<"P","A","R","K">>>>,
  <<<<"P","L">>, <<"P","L">>>>,
  <<<<"B","L","V">>, <<"B","L","V","D">>>>,
  <<<<"D","I","V","I","D","E">>, <<"D","V">>>>,
  <<<<"C","L","U","B">>, <<"C","L","B">>>>,
  <<<<"V","I","L","L">>, <<"V","L","G">>>>,
  <<<<"L","O","D","G","E">>, <<"L","D","G">>>>,
  <<<<"A","N","E","X">>, <<"A","N","X">>>>,
  <<<<"N","E","C","K">>, <<"N","C","K">>>>,
  <<<<"T","R","A","C","E">>, <<"T","R","C","E">>>>,
  <<<<"T","R","A","C","K">>, <<"T","R","A","K">>>>,
  <<<<"F","R","S","T">>, <<"F","R","S","T">>>>,
  <<<<"S","T","R","T">>, <<"S","T">>>>,
  <<<<"R","P","D","S">>, <<"R","P","D","S">>>>,
  <<<<"S","T","R","M">>, <<"S","T","R","M">>>>,
  <<<<"S","T","R","A">>, <<"S","T","R","A">>>>,
  <<<<"A","N","X">>, <<"A","N","X">>>>,
  <<<<"L","C","K">>, <<"L","C","K","S">>>>,
  <<<<"C","O","R">>, <<"C","O","R">>>>,
  <<<<"J","U","N","C","T","I","O","N">>, <<"J","C","T">>>>,
  <<<<"S","T","R","E","A","M">>, <<"S","T","R","M">>>>,
  <<<<"D","V","D">>, <<"D","V">>>>,
  <<<<"H","A","R","B">>, <<"H","B","R">>>>,
  <<<<"P","R","K">>, <<"P","A","R","K">>>>,
  <<<<"R","I","V","R">>, <<"R","I","V">>>>,
  <<<<"O","V","A","L">>, <<"O","V","A","L">>>>,
  <<<<"C","R","E","C","E","N","T">>, <<"C","R","E","S">>>>,
  <<<<"V","I","S","T">>, <<"V","I","S">>>>,
  <<<<"M","A","N","O","R">>, <<"M","N","R">>>>,
  <<<<"T","U","N","N","E","L">>, <<"T","U","N","L">>>>,
  <<<<"G","T","W","A","Y">>, <<"G","T","W","Y">>>>,
  <<<<"P","K","W","Y">>, <<"P","K","Y">>>>,
  <<<<"A","V","E","N","U">>, <<"A","V","E">>>>,
  <<<<"J","U","N","C","T","O","N">>, <<"J","C","T">>>>,
  <<<<"S","U","M","M","I","T">>, <<"S","M","T">>>>,
  <<<<"H","W","Y">>, <<"H","W","Y">>>>,
  <<<<"M","T","I","N">>, <<"M","T","N">>>>,
  <<<<"T","R","A","C","E","S">>, <<"T","R","C","E">>>>,
  <<<<"T","E","R","R","A","C","E">>, <<"T","E","R">>>>,
  <<<<"C","K">>, <<"C","R","K">>>>,
  <<<<"O","R","C","H","A","R","D">>, <<"O","R","C","H">>>>,
  <<<<"C","E","N","T","R","E">>, <<"C","T","R">>>>,
  <<<<"L","O","C","K">>, <<"L","C","K","S">>>>,
  <<<<"C","O","V","E","S">>, <<"C","V">>>>,
  <<<<"F","I","E","L","D">>, <<"F","L","D">>>>,
  <<<<"S","T","A","T","N">>, <<"S","T","A">>>>,
  <<<<"C","R">>, <<"C","R","K">>>>,
  <<<<"C","P">>, <<"C","P">>>>,
  <<<<"G","R","O","V">>, <<"G","R","V">>>>,
  <<<<"C","V">>, <<"C","V">>>>,
  <<<<"C","T">>, <<"C","T">>>>,
  <<<<"L","N","D","N","G">>, <<"L","N","D","G">>>>,
  <<<<"R","U","N">>, <<"R","U","N">>>>,
  <<<<"C","R","E","S","E","N","T">>, <<"C","R","E","S">>>>,
  <<<<"P","L","Z">>, <<"P","L","Z">>>>,
  <<<<"T","R","A","K">>, <<"T","R","A","K">>>>,
  <<<<"L","O","C","K","S">>, <<"L","C","K","S">>>>,
  <<<<"P","L","N">>, <<"P","L","N">>>>,
  <<<<"M","N","T","N">>, <<"M","T","N">>>>,
  <<<<"T","P","K","E">>, <<"T","P","K","E">>>>,
  <<<<"R","A","N","C","H","E","S">>, <<"R","N","C","H">>>>,
  <<<<"F","R","W","Y">>, <<"F","W","Y">>>>,
  <<<<"D","I","V">>, <<"D","V">>>>,
  <<<<"K","N","O","L","L","S">>, <<"K","N","L","S">>>>,
  <<<<"L","I","G","H","T","S">>, <<"L","G","T">>>>,
  <<<<"C","R","C","L","E">>, <<"C","I","R">>>>,
  <<<<"H","I","W","Y">>, <<"H","W","Y">>>>,
  <<<<"T","E","R","R">>, <<"T","E","R">>>>,
  <<<<"J","C","T">>, <<"J","C","T">>>>,
  <<<<"I","N","L","T">>, <<"I","N","L","T">>>>,
  <<<<"I","S">>, <<"I","S">>>>,
  <<<<"B","R","O","O","K">>, <<"B","R","K">>>>,
  <<<<"B","R","O","O","K","S">>, <<"B","R","K">>>>,
  <<<<"M","T","N">>, <<"M","T","N">>>>,
  <<<<"C","I","R","C","L">>, <<"C","I","R">>>>,
  <<<<"V","W">>, <<"V","W">>>>,
  <<<<"F","L","A","T","S">>, <<"F","L","T">>>>,
  <<<<"A","R","C","A","D","E">>, <<"A","R","C">>>>,
  <<<<"P","I","N","E">>, <<"P","N","E","S">>>>,
  <<<<"A","R","C">>, <<"A","R","C">>>>,
  <<<<"L","D","G","E">>, <<"L","D","G">>>>,
  <<<<"B","G">>, <<"B","G">>>>,
  <<<<"F","R","E","E","W","Y">>, <<"F","W","Y">>>>,
  <<<<"H","I","L","L","S">>, <<"H","L","S">>>>,
  <<<<"B","L">>, <<"B","L","V","D">>>>,
  <<<<"W","E","L","L">>, <<"W","L","S">>>>,
  <<<<"S","H","L","S">>, <<"S","H","L","S">>>>,
  <<<<"B","O","T">>, <<"B","T","M">>>>,
  <<<<"B","R","D","G","E">>, <<"B","R","G">>>>,
  <<<<"D","R","V">>, <<"D","R">>>>,
  <<<<"B","V">>, <<"B","L","V","D">>>>,
  <<<<"F","W","Y">>, <<"F","W","Y">>>>,
  <<<<"B","R">>, <<"B","R">>>>,
  <<<<"B","C","H">>, <<"B","C","H">>>>,
  <<<<"F","O","R","K","S">>, <<"F","R","K","S">>>>,
  <<<<"H","I","W","A","Y">>, <<"H","W","Y">>>>,
  <<<<"B","Y">>, <<"P","A","S","S">>>>,
  <<<<"V","L">>, <<"V","L">>>>,
  <<<<"H","B","R">>, <<"H","B","R">>>>,
  <<<<"T","U","R","N","P","K">>, <<"T","P","K","E">>>>,
  <<<<"C","T","R">>, <<"C","T","R">>>>,
  <<<<"C","E","N","T">>, <<"C","T","R">>>>,
  <<<<"S","P","R","N","G">>, <<"S","P","G">>>>,
  <<<<"R","V","R">>, <<"R","I","V">>>>,
  <<<<"H","O","L","W","S">>, <<"H","O","L","W">>>>,
  <<<<"P","R","A","I","R","I","E">>, <<"P","R">>>>,
  <<<<"B","R","A","N","C","H">>, <<"B","R">>>>,
  <<<<"V","A","L","L","E","Y">>, <<"V","L","Y">>>>,
  <<<<"A","L","L","Y">>, <<"A","L","Y">>>>,
  <<<<"G","R","O","V","E">>, <<"G","R","V">>>>,
  <<<<"C","L","F","S">>, <<"C","L","F","S">>>>,
  <<<<"R","I","D","G","E","S">>, <<"R","D","G">>>>,
  <<<<"P","O","R","T","S">>, <<"P","R","T">>>>,
  <<<<"V","I","L","L","A","G">>, <<"V","L","G">>>>,
  <<<<"B","Y","P","A">>, <<"B","Y","P">>>>,
  <<<<"V","I","E","W","S">>, <<"V","W">>>>,
  <<<<"H","A","R","B","O","R">>, <<"H","B","R">>>>,
  <<<<"S","Q","R">>, <<"S","Q">>>>,
  <<<<"S","Q","U">>, <<"S","Q">>>>,
  <<<<"B","Y","P","S">>, <<"B","Y","P">>>>,
  <<<<"B","V","D">>, <<"B","L","V","D">>>>,
  <<<<"M","A","N","O","R","S">>, <<"M","N","R">>>>,
  <<<<"I","S","L","E">>, <<"I","S","L","E">>>>,
  <<<<"C","R","C","L">>, <<"C","I","R">>>>,
  <<<<"B","U","R","G">>, <<"B","G">>>>,
  <<<<"H","L","L","W">>, <<"H","O","L","W">>>>,
  <<<<"G","A","R","D","E","N">>, <<"G","D","N","S">>>>,
  <<<<"F","L","S">>, <<"F","L","S">>>>,
  <<<<"F","L","T">>, <<"F","L","T">>>>,
  <<<<"H","T">>, <<"H","T","S">>>>,
  <<<<"H","L">>, <<"H","L">>>>,
  <<<<"B","U","L","E","V","A","R","D">>, <<"B","L","V","D">>>>,
  <<<<"A","V","E","N","U","E">>, <<"A","V","E">>>>,
  <<<<"F","L","D">>, <<"F","L","D">>>>,
  <<<<"G","T","W","Y">>, <<"G","T","W","Y">>>>,
  <<<<"L","A","N","E","S">>, <<"L","N">>>>,
  <<<<"C","E","N","T","E","R">>, <<"C","T","R">>>>,
  <<<<"V","I","S">>, <<"V","I","S">>>>,
  <<<<"M","N","R">>, <<"M","N","R">>>>,
  <<<<"P","L","A","I","N","E","S">>, <<"P","L","N","S">>>>,
  <<<<"M","N","T">>, <<"M","T">>>>,
  <<<<"P","L","A","I","N","S">>, <<"P","L","N","S">>>>,
  <<<<"J","U","N","C","T","N">>, <<"J","C","T">>>>,
  <<<<"P","T","S">>, <<"P","T">>>>,
  <<<<"R","O","W">>, <<"R","O","W">>>>,
  <<<<"F","O","R","G","E","S">>, <<"F","R","G">>>>,
  <<<<"B","O","U","L","E","V","A","R","D">>, <<"B","L","V","D">>>>,
  <<<<"T","R","L">>, <<"T","R","L">>>>,
  <<<<"F","O","R","D","S">>, <<"F","R","D">>>>,
  <<<<"C","O","U","R","S","E">>, <<"C","R","S","E">>>>,
  <<<<"P","L","A","C","E">>, <<"P","L">>>>,
  <<<<"C","A","P","E">>, <<"C","P","E">>>>,
  <<<<"H","E","I","G","H","T","S">>, <<"H","T","S">>>>,
  <<<<"S","H","O","A","R">>, <<"S","H","R">>>>,
  <<<<"V","I","A","D","U","C","T">>, <<"V","I","A">>>>,
  <<<<"P","A","R","K","W","Y">>, <<"P","K","Y">>>>,
  <<<<"U","N">>, <<"U","N">>>>,
  <<<<"H","T","S">>, <<"H","T","S">>>>,
  <<<<"S","H","O","A","L">>, <<"S","H","L">>>>,
  <<<<"C","R","O","S","S","I","N","G">>, <<"X","I","N","G">>>>,
  <<<<"A","V","E">>, <<"A","V","E">>>>,
  <<<<"F","L","D","S">>, <<"F","L","D","S">>>>,
  <<<<"V","L","G","S">>, <<"V","L","G">>>>,
  <<<<"A","V","N","U","E">>, <<"A","V","E">>>>,
  <<<<"E","S","T","S">>, <<"E","S","T">>>>,
  <<<<"F","O","R","G","E">>, <<"F","R","G">>>>,
  <<<<"S","T","R","A","V","E","N","U","E">>, <<"S","T","R","A">>>>,
  <<<<"M","N","T","N","S">>, <<"M","T","N">>>>,
  <<<<"A","V","E","N">>, <<"A","V","E">>>>,
  <<<<"V","L","L","Y">>, <<"V","L","Y">>>>,
  <<<<"V","S","T","A">>, <<"V","I","S">>>>,
  <<<<"W","A","L","K","S">>, <<"W","A","L","K">>>>,
  <<<<"T","R","F","Y">>, <<"T","R","F","Y">>>>,
  <<<<"T","E","R">>, <<"T","E","R">>>>,
  <<<<"P","R","T","S">>, <<"P","R","T">>>>,
  <<<<"R","D","S">>, <<"R","D">>>>,
  <<<<"M","I","L","L","S">>, <<"M","L","S">>>>,
  <<<<"R","D","G">>, <<"R","D","G">>>>,
  <<<<"K","N","L","S">>, <<"K","N","L","S">>>>,
  <<<<"C","O","R","S">>, <<"C","O","R","S">>>>,
  <<<<"C","A","N","Y","N">>, <<"C","Y","N">>>>,
  <<<<"S","P","U","R","S">>, <<"S","P","U","R">>>>,
  <<<<"V","I","L","L","E">>, <<"V","L">>>>,
  <<<<"V","I","L","L","G">>, <<"V","L","G">>>>,
  <<<<"W","A","Y","S">>, <<"W","A","Y">>>>,
  <<<<"I","S","L","A","N","D">>, <<"I","S">>>>,
  <<<<"S","U","M","I","T">>, <<"S","M","T">>>>,
  <<<<"M","D","W","S">>, <<"M","D","W","S">>>>,
  <<<<"C","I","R","C">>, <<"C","I","R">>>>,
  <<<<"B","R","K">>, <<"B","R","K">>>>,
  <<<<"P","R","A","R","I","E">>, <<"P","R">>>>,
  <<<<"B","R","G">>, <<"B","R","G">>>>,
  <<<<"G","D","N">>, <<"G","D","N","S">>>>,
  <<<<"D","A","L","E">>, <<"D","L">>>>,
  <<<<"T","R","N","P","K">>, <<"T","P","K","E">>>>,
  <<<<"W","A","L","K">>, <<"W","A","L","K">>>>,
  <<<<"H","R","B","O","R">>, <<"H","B","R">>>>,
  <<<<"B","L","U","F","F","S">>, <<"B","L","F">>>>,
  <<<<"D","R","I","V","E">>, <<"D","R">>>>,
  <<<<"P","L","Z","A">>, <<"P","L","Z">>>>,
  <<<<"M","S","N">>, <<"M","S","N">>>>,
  <<<<"C","R","S","S","I","N","G">>, <<"X","I","N","G">>>>,
  <<<<"P","A","R","K","W","A","Y">>, <<"P","K","Y">>>>,
  <<<<"S","P","N","G">>, <<"S","P","G">>>>,
  <<<<"E","X","T","N","S","N">>, <<"E","X","T">>>>,
  <<<<"H","E","I","G","H","T">>, <<"H","T","S">>>>,
  <<<<"D","A","M">>, <<"D","M">>>>,
  <<<<"T","R">>, <<"T","R","L">>>>,
  <<<<"A","L","L","E","Y">>, <<"A","L","Y">>>>,
  <<<<"L","K","S">>, <<"L","K","S">>>>,
  <<<<"A","L","L","E","E">>, <<"A","L","Y">>>>,
  <<<<"P","O","I","N","T","S">>, <<"P","T">>>>,
  <<<<"F","O","R","E","S","T">>, <<"F","R","S","T">>>>,
  <<<<"O","R","C","H">>, <<"O","R","C","H">>>>,
  <<<<"P","L","A","I","N">>, <<"P","L","N">>>>,
  <<<<"E","S","T">>, <<"E","S","T">>>>,
  <<<<"S","T","R","A","V","E","N">>, <<"S","T","R","A">>>>,
  <<<<"S","H","O","A","L","S">>, <<"S","H","L","S">>>>,
  <<<<"R","N","C","H">>, <<"R","N","C","H">>>>,
  <<<<"H","O","L","L","O","W","S">>, <<"H","O","L","W">>>>,
  <<<<"A","V">>, <<"A","V","E">>>>,
  <<<<"S","Q","U","A","R","E","S">>, <<"S","Q">>>>,
  <<<<"G","D","N","S">>, <<"G","D","N","S">>>>,
  <<<<"S","P","G","S">>, <<"S","P","G","S">>>>,
  <<<<"V","S","T">>, <<"V","I","S">>>>,
  <<<<"C","R","S","C","N","T">>, <<"C","R","E","S">>>>,
  <<<<"G","A","T","E","W","A","Y">>, <<"G","T","W","Y">>>>,
  <<<<"U","N","I","O","N","S">>, <<"U","N">>>>,
  <<<<"G","A","T","W","A","Y">>, <<"G","T","W","Y">>>>,
  <<<<"C","A","U","S","W","A","Y">>, <<"C","S","W","Y">>>>
>>

Keys == {mapping[j][1] : j \in 1..Len(mapping)}
Lookup(m) == mapping[CHOOSE j \in 1..Len(mapping) : mapping[j][1] = m][2]

\* the test of the inner if: " m" in street_upper or " m " in street_upper
KeyFound(street_upper, m) ==
  \/ Contains(street_upper, <<" ">> \o m)
  \/ Contains(street_upper, <<" ">> \o m \o <<" ">>)

\* The keys by their first character, and the keys that can be found in s at
\* all: " m" in s needs a space of s followed by m's first character.
ByFirst == [c \in {mapping[j][1][1] : j \in 1..Len(mapping)} |->
              {j \in 1..Len(mapping) : mapping[j][1][1] = c}]
Candidates(s) ==
  UNION {ByFirst[s[k + 1]] :
           k \in {n \in 1..(Len(s) - 1) : s[n] = " " /\ s[n + 1] \in DOMAIN ByFirst}}

\* Longest with the comparison turned round: the shortest key found wins.
LongestShortestFirst(street_upper) ==
  LET hits == {j \in Candidates(street_upper) : KeyFound(street_upper, mapping[j][1])}
      best == {j \in hits : \A k \in hits :
                 \/ Len(mapping[k][1]) > Len(mapping[j][1])
                 \/ Len(mapping[k][1]) = Len(mapping[j][1]) /\ j <= k}
  IN IF hits = {} THEN <<>> ELSE mapping[CHOOSE j \in best : TRUE][1]

\* the for loop of mapover: the first key, in dict order, among the longest found
Longest(street_upper) ==
  LET hits == {j \in Candidates(street_upper) : KeyFound(street_upper, mapping[j][1])}
      best == {j \in hits : \A k \in hits :
                 \/ Len(mapping[k][1]) < Len(mapping[j][1])
                 \/ Len(mapping[k][1]) = Len(mapping[j][1]) /\ j <= k}
  IN IF hits = {} THEN <<>> ELSE mapping[CHOOSE j \in best : TRUE][1]

mapover(s) ==
  LET street_upper == Upper(s)
      longest == Longest(street_upper)
  IN IF longest # <<>> THEN Replace(street_upper, longest, Lookup(longest)) ELSE s

\* The most iterations of the while loop the model follows in one call.
MaxPasses == 8

\* keep_going = True; old_street = street
S2AEnter ==
  /\ pc = "s2a_entry"
  /\ keep_going' = TRUE
  /\ old_street' = street
  /\ passes' = 0
  /\ pc' = "s2a_loop"
  /\ UNCHANGED <<nvars, arg, street, ret, calls>>

\* S2APass without the repetition: the loop ends after its first pass.
S2APassOnce ==
  /\ pc = "s2a_loop"
  /\ keep_going
  /\ passes < MaxPasses
  /\ passes' = passes + 1
  /\ LET r == mapover(old_street) IN
       /\ street' = r
       /\ keep_going' = FALSE
       /\ old_street' = IF r = old_street THEN old_street ELSE r
  /\ UNCHANGED <<pc, nvars, arg, ret, calls>>

\* one iteration of the while loop
S2APass ==
  /\ pc = "s2a_loop"
  /\ keep_going
  /\ passes < MaxPasses
  /\ passes' = passes + 1
  /\ LET r == mapover(old_street) IN
       /\ street' = r
       /\ keep_going' = (r # old_street)
       /\ old_street' = IF r = old_street THEN old_street ELSE r
  /\ UNCHANGED <<pc, nvars, arg, ret, calls>>

\* return street
S2AReturn ==
  /\ pc = "s2a_loop"
  /\ ~keep_going
  /\ ret' = street
  /\ pc' = "s2a_return"
  /\ UNCHANGED <<nvars, arg, street, old_street, keep_going, passes, calls>>

-----------------------------------------------------------------------------
(* normalize_address: the tagger's answer *)

\* The tags the for loop has a branch for.
Vocabulary ==
  {"AddressNumber", "AddressNumberSuffix", "StreetNamePreDirectional",
   "StreetNamePostDirectional", "StreetNamePreType", "StreetNamePreModifier",
   "StreetName", "StreetNamePostType", "SubaddressType", "SubaddressIdentifier",
   "OccupancyType", "OccupancyIdentifier", "PlaceName", "StateName", "ZipCode",
   "ZipPlus4"}

\* The tags of an address as written, left to right; Recipient is a label of
\* the tagger that normalize_address has no branch for.
WrittenOrder ==
  <<"Recipient", "AddressNumber", "AddressNumberSuffix", "StreetNamePreDirectional",
    "StreetNamePreModifier", "StreetNamePreType", "StreetName", "StreetNamePostType",
    "StreetNamePostDirectional", "SubaddressType", "SubaddressIdentifier",
    "OccupancyType", "OccupancyIdentifier", "PlaceName", "StateName", "ZipCode",
    "ZipPlus4">>

RECURSIVE Reverse(_)
Reverse(s) == IF s = <<>> THEN <<>> ELSE Reverse(Tail(s)) \o <<s[1]>>

\* The iteration orders the model draws from: as written, and the reverse (a
\* directional on the other side of StreetName, ZipCode before PlaceName).
Orders == {WrittenOrder, Reverse(WrittenOrder)}

AllTags == {WrittenOrder[k] : k \in 1..Len(WrittenOrder)}

\* A tag mapping holds at most MaxPresent tags, or all but at most MaxAbsent.
MaxPresent == 4
MaxAbsent == 3

RECURSIVE SubsetsUpTo(_, _)
SubsetsUpTo(U, n) ==
  IF n = 0 THEN {{}}
  ELSE LET P == SubsetsUpTo(U, n - 1) IN P \cup {s \cup {x} : s \in P, x \in U}

TagChoices ==
  SubsetsUpTo(AllTags, MaxPresent) \cup {AllTags \ A : A \in SubsetsUpTo(AllTags, MaxAbsent)}

\* The fragment of each tag, and the fragments PlaceName is drawn from: a
\* plain city, a city with a zip tacked on, a zip alone, and two zips.
Fragment ==
  [t \in AllTags |->
     CASE t = "Recipient" -> <<"B","o","b">>
       [] t = "AddressNumber" -> <<"2","3","3","6">>
       [] t = "AddressNumberSuffix" -> <<"1","/","2">>
       [] t = "StreetNamePreDirectional" -> <<"s">>
       [] t = "StreetNamePreModifier" -> <<"O","l","d">>
       [] t = "StreetNamePreType" -> <<"H","i","g","h","w","a","y">>
       [] t = "StreetName" -> <<"2","5">>
       [] t = "StreetNamePostType" -> <<"A","v","e","n","u","e">>
       [] t = "StreetNamePostDirectional" -> <<"E">>
       [] t = "SubaddressType" -> <<"B","l","d","g">>
       [] t = "SubaddressIdentifier" -> <<"T","R","L","R">>
       [] t = "OccupancyType" -> <<"U","n","i","t">>
       [] t = "OccupancyIdentifier" -> <<"A">>
       [] t = "PlaceName" -> <<"T","r","o","y">>
       [] t = "StateName" -> <<"m","s">>
       [] t = "ZipCode" -> <<"3","9","7","3","0">>
       [] t = "ZipPlus4" -> <<"9","4","8","3">>]

PlaceNames ==
  {<<"T","r","o","y">>, <<"T","r","o","y"," ","3","9","7","3","0">>, <<"3","9","7","3","0">>, <<"1","2","3","4","5"," ","T","r","o","y"," ","3","9","7","3","0","-","9","4","8","3">>}

\* the (tag, fragment) pairs of the tags of order that are in S
RECURSIVE Pairs(_, _, _)
Pairs(order, S, place) ==
  IF order = <<>> THEN <<>>
  ELSE IF order[1] \notin S THEN Pairs(Tail(order), S, place)
  ELSE <<<<order[1], IF order[1] = "PlaceName" THEN place ELSE Fragment[order[1]]>>>>
         \o Pairs(Tail(order), S, place)

TagSets == {Pairs(o, S, p) : o \in Orders, S \in TagChoices, p \in PlaceNames}

AddTypes == {"Street Address", "Ambiguous"}

\* tag in tagset, tagset[tag]
HasTag(ts, t) == \E k \in 1..Len(ts) : ts[k][1] = t
Get(ts, t) == ts[CHOOSE k \in 1..Len(ts) : ts[k][1] = t][2]
\* the position of tag in the iteration, 0 when absent
Pos(ts, t) == IF HasTag(ts, t) THEN CHOOSE k \in 1..Len(ts) : ts[k][1] = t ELSE 0

-----------------------------------------------------------------------------
(* normalize_address *)

NoLocals ==
  [add_number |-> None, add_number_suffix |-> None, street_name_pretype |-> None,
   street_name |-> None, street_directional_pre |-> None,
   street_directional_post |-> None, street_type |-> None, street_postfix |-> None,
   occ_type |-> None, city |-> None, state_name |-> None, zipc |-> None]

NoResult == [kind |-> "none"]

\* raise AddressUnparsable(addr, reason, tagset)
AddressUnparsable(reason, ts) ==
  [kind |-> "AddressUnparsable", reason |-> reason, tagset |-> ts]

\* Address(number, street, city, state, zipc)
Address(number, street_, city, state, zipc) ==
  [kind |-> "Address", number |-> number, street |-> street_, city |-> city,
   state |-> state, zipc |-> zipc]

\* the truth value of a local: neither None nor the empty string
Truthy(x) == x # None /\ x # <<>>

Init ==
  /\ pc = "tag"
  /\ tagset = <<>>
  /\ add_type = ""
  /\ idx = 0
  /\ loc = NoLocals
  /\ result = NoResult
  /\ arg = None
  /\ street = None
  /\ old_street = None
  /\ keep_going = FALSE
  /\ passes = 0
  /\ ret = None
  /\ calls = 0

avars == <<arg, street, old_street, keep_going, passes, ret, calls>>

\* tags = usaddress.tag(addr); tagset = tags[0]; add_type = tags[1]
TagReturns ==
  /\ pc = "tag"
  /\ \E ts \in TagSets, t \in AddTypes :
       /\ tagset' = ts
       /\ add_type' = t
  /\ pc' = "check_type"
  /\ UNCHANGED <<idx, loc, result, avars>>

\* except usaddress.RepeatedLabelError
TagRaises ==
  /\ pc = "tag"
  /\ result' = AddressUnparsable("usaddress.RepeatedLabelError", <<>>)
  /\ pc' = "raised"
  /\ UNCHANGED <<tagset, add_type, idx, loc, avars>>

\* if add_type != "Street Address": raise; else the locals are set to None
CheckAddType ==
  /\ pc = "check_type"
  /\ IF add_type # "Street Address"
       THEN /\ result' = AddressUnparsable("Library has unknown address type of " \o add_type, tagset)
            /\ pc' = "raised"
            /\ UNCHANGED <<idx, loc>>
       ELSE /\ loc' = NoLocals
            /\ idx' = 1
            /\ pc' = "for"
            /\ UNCHANGED result
  /\ UNCHANGED <<tagset, add_type, avars>>

\* for tag in tagset: the loop is at a pair whose tag is one of ts
AtTag(ts) == pc = "for" /\ idx <= Len(tagset) /\ tagset[idx][1] \in ts
\* val = tagset[tag]
val == tagset[idx][2]
\* the branch ends with the locals as newloc; the loop goes to the next tag
Continue(newloc) ==
  /\ loc' = newloc
  /\ idx' = idx + 1
  /\ UNCHANGED <<pc, tagset, add_type, result, avars>>
\* the branch raises
Raise(reason) ==
  /\ result' = AddressUnparsable(reason, tagset)
  /\ pc' = "raised"
  /\ UNCHANGED <<tagset, add_type, idx, loc, avars>>

ForAddressNumber ==
  AtTag({"AddressNumber"}) /\ Continue([loc EXCEPT !.add_number = val])

ForAddressNumberSuffix ==
  AtTag({"AddressNumberSuffix"}) /\ Continue([loc EXCEPT !.add_number_suffix = val])

\* ForDirectional trusting the tag's name when only one directional is there.
ForDirectionalByName ==
  /\ AtTag({"StreetNamePreDirectional", "StreetNamePostDirectional"})
  /\ Continue(
       IF HasTag(tagset, "StreetNamePreDirectional") /\ HasTag(tagset, "StreetNamePostDirectional")
         THEN [loc EXCEPT !.street_directional_pre = Get(tagset, "StreetNamePreDirectional"),
                          !.street_directional_post = Get(tagset, "StreetNamePostDirectional")]
       ELSE IF tagset[idx][1] = "StreetNamePreDirectional"
         THEN [loc EXCEPT !.street_directional_pre = val]
         ELSE [loc EXCEPT !.street_directional_post = val])

ForDirectional ==
  /\ AtTag({"StreetNamePreDirectional", "StreetNamePostDirectional"})
  /\ Continue(
       IF HasTag(tagset, "StreetNamePreDirectional") /\ HasTag(tagset, "StreetNamePostDirectional")
         THEN [loc EXCEPT !.street_directional_pre = Get(tagset, "StreetNamePreDirectional"),
                          !.street_directional_post = Get(tagset, "StreetNamePostDirectional")]
       ELSE IF loc.street_name = None
         THEN [loc EXCEPT !.street_directional_pre = val]
         ELSE [loc EXCEPT !.street_directional_post = val])

ForPreType ==
  /\ AtTag({"StreetNamePreType"})
  /\ Continue([loc EXCEPT !.street_name_pretype =
                 IF HasTag(tagset, "StreetNamePreModifier")
                   THEN Get(tagset, "StreetNamePreModifier") \o <<" ">> \o val
                   ELSE val])

ForPreModifier ==
  /\ AtTag({"StreetNamePreModifier"})
  /\ IF ~HasTag(tagset, "StreetNamePreType")
       THEN Raise("Unexpected Tag Scenario: StreetNamePreType")
       ELSE Continue(loc)

ForStreetName ==
  AtTag({"StreetName"}) /\ Continue([loc EXCEPT !.street_name = val])

ForPostType ==
  AtTag({"StreetNamePostType"}) /\ Continue([loc EXCEPT !.street_type = val])

ForSubaddressType ==
  /\ AtTag({"SubaddressType"})
  /\ HasTag(tagset, "SubaddressIdentifier")
  /\ Continue([loc EXCEPT !.street_postfix =
                 val \o <<" ">> \o Get(tagset, "SubaddressIdentifier")])

\* the branches that only pass
ForPass ==
  /\ AtTag({"SubaddressIdentifier", "OccupancyIdentifier", "ZipPlus4"})
  /\ Continue(loc)

ForOccupancyType ==
  /\ AtTag({"OccupancyType"})
  /\ Continue([loc EXCEPT !.occ_type =
                 IF HasTag(tagset, "OccupancyIdentifier")
                   THEN val \o <<" ">> \o Get(tagset, "OccupancyIdentifier")
                   ELSE val])

\* zips.search(s): the leftmost match of \d{5}(?:[-\s]\d{4})?, None without one
AllDigits(s, a, b) == b <= Len(s) /\ \A k \in a..b : s[k] \in Digits
ZipsSearch(s) ==
  LET starts == {k \in 1..Len(s) : AllDigits(s, k, k + 4)} IN
  IF starts = {} THEN None
  ELSE LET k == CHOOSE n \in starts : \A o \in starts : n <= o
           plus4 == /\ k + 9 <= Len(s)
                    /\ s[k + 5] \in {"-"} \cup Whitespace
                    /\ AllDigits(s, k + 6, k + 9)
       IN SubSeq(s, k, IF plus4 THEN k + 9 ELSE k + 4)

\* ForPlaceName without the test that no zip is recorded yet.
ForPlaceNameAlways ==
  /\ AtTag({"PlaceName"})
  /\ LET m == ZipsSearch(val) IN
       Continue(IF m # None
                  THEN [loc EXCEPT !.zipc = m, !.city = Strip(Replace(val, m, <<>>))]
                  ELSE [loc EXCEPT !.city = val])

ForPlaceName ==
  /\ AtTag({"PlaceName"})
  /\ LET m == ZipsSearch(val) IN
       Continue(IF m # None /\ loc.zipc = None
                  THEN [loc EXCEPT !.zipc = m, !.city = Strip(Replace(val, m, <<>>))]
                  ELSE [loc EXCEPT !.city = val])

ForStateName ==
  AtTag({"StateName"}) /\ Continue([loc EXCEPT !.state_name = val])

ForZipCode ==
  /\ AtTag({"ZipCode"})
  /\ Continue([loc EXCEPT !.zipc =
                 IF HasTag(tagset, "ZipPlus4")
                   THEN val \o <<"-">> \o Get(tagset, "ZipPlus4")
                   ELSE val])

\* else: no branch took the tag (SubaddressType without SubaddressIdentifier
\* fails its elif and falls through to here)
ForElse ==
  /\ pc = "for"
  /\ idx <= Len(tagset)
  /\ \/ tagset[idx][1] \notin Vocabulary
     \/ tagset[idx][1] = "SubaddressType" /\ ~HasTag(tagset, "SubaddressIdentifier")
  /\ Raise("Unexpected Tag: " \o tagset[idx][1])

\* the for loop is over
ForEnd ==
  /\ pc = "for"
  /\ idx > Len(tagset)
  /\ pc' = "check_number"
  /\ UNCHANGED <<tagset, add_type, idx, loc, result, avars>>

\* CheckNumber without the raise: a missing number becomes an empty one.
CheckNumberFabricates ==
  /\ pc = "check_number"
  /\ loc' = IF loc.add_number = None
              THEN [loc EXCEPT !.add_number = <<>>]
            ELSE IF Truthy(loc.add_number_suffix)
              THEN [loc EXCEPT !.add_number = @ \o <<" ">> \o loc.add_number_suffix]
              ELSE loc
  /\ pc' = "check_street"
  /\ UNCHANGED <<tagset, add_type, idx, result, avars>>

\* if add_number is None: raise; else the suffix is appended
CheckNumber ==
  /\ pc = "check_number"
  /\ IF loc.add_number = None
       THEN Raise("Missing street number")
       ELSE /\ loc' = IF Truthy(loc.add_number_suffix)
                        THEN [loc EXCEPT !.add_number = @ \o <<" ">> \o loc.add_number_suffix]
                        ELSE loc
            /\ pc' = "check_street"
            /\ UNCHANGED <<tagset, add_type, idx, result, avars>>

\* if street_name is None: raise
CheckStreetName ==
  /\ pc = "check_street"
  /\ IF loc.street_name = None
       THEN Raise("Missing street name")
       ELSE /\ pc' = "build_street"
            /\ UNCHANGED <<tagset, add_type, idx, loc, result, avars>>

\* the pretype and the street type joined to street_name
WithTypes(l) ==
  LET named == IF Truthy(l.street_name_pretype)
                 THEN l.street_name_pretype \o <<" ">> \o l.street_name
                 ELSE l.street_name
  IN IF Truthy(l.street_type) THEN named \o <<" ">> \o l.street_type ELSE named

\* street_name gets the pretype and the street type; street_to_abbreviated is called on it
BuildStreet ==
  /\ pc = "build_street"
  /\ loc' = [loc EXCEPT !.street_name = WithTypes(loc)]
  /\ arg' = WithTypes(loc)
  /\ street' = WithTypes(loc)
  /\ pc' = "s2a_entry"
  /\ UNCHANGED <<tagset, add_type, idx, result, old_street, keep_going, passes, ret, calls>>

\* WithRest with the occupancy joined before the street postfix.
WithRestOccupancyFirst(l, name) ==
  LET pre == IF Truthy(l.street_directional_pre)
               THEN l.street_directional_pre \o <<" ">> \o name ELSE name
      post == IF Truthy(l.street_directional_post)
                THEN pre \o <<" ">> \o l.street_directional_post ELSE pre
      occ == IF Truthy(l.occ_type) THEN post \o <<" ">> \o l.occ_type ELSE post
  IN IF Truthy(l.street_postfix) THEN occ \o <<" ">> \o l.street_postfix ELSE occ

\* the directionals, the street postfix and the occupancy joined to street_name
WithRest(l, name) ==
  LET pre == IF Truthy(l.street_directional_pre)
               THEN l.street_directional_pre \o <<" ">> \o name ELSE name
      post == IF Truthy(l.street_directional_post)
                THEN pre \o <<" ">> \o l.street_directional_post ELSE pre
      postfix == IF Truthy(l.street_postfix)
                   THEN post \o <<" ">> \o l.street_postfix ELSE post
  IN IF Truthy(l.occ_type) THEN postfix \o <<" ">> \o l.occ_type ELSE postfix

\* street_name = what street_to_abbreviated returned, then the rest is joined to it
Assemble ==
  /\ pc = "s2a_return"
  /\ loc' = [loc EXCEPT !.street_name = WithRest(loc, ret)]
  /\ pc' = "check_city"
  /\ UNCHANGED <<tagset, add_type, idx, result, avars>>

\* if None in [city, state_name, zipc]: raise; else return Address(...)
Finish ==
  /\ pc = "check_city"
  /\ IF None \in {loc.city, loc.state_name, loc.zipc}
       THEN Raise("Missing city, state, or zip")
       ELSE /\ result' = Address(Upper(loc.add_number), Upper(loc.street_name),
                                 Upper(loc.city), Upper(loc.state_name), loc.zipc)
            /\ pc' = "returned"
            /\ UNCHANGED <<tagset, add_type, idx, loc, avars>>

Next ==
  \/ TagReturns \/ TagRaises \/ CheckAddType
  \/ ForAddressNumber \/ ForAddressNumberSuffix \/ ForDirectional \/ ForPreType
  \/ ForPreModifier \/ ForStreetName \/ ForPostType \/ ForSubaddressType \/ ForPass
  \/ ForOccupancyType \/ ForPlaceName \/ ForStateName \/ ForZipCode \/ ForElse \/ ForEnd
  \/ CheckNumber \/ CheckStreetName \/ BuildStreet
  \/ S2AEnter \/ S2APass \/ S2AReturn
  \/ Assemble \/ Finish

Spec == Init /\ [][Next]_vars

-----------------------------------------------------------------------------
(* street_to_abbreviated on its own: called on a street string, and called *)
(* again on what it returned.                                              *)

MaxWords == 3
MaxCalls == 1

WordPool == {<<"F","a","k","e">>, <<"W","E","S","T","H","A","V","E","N">>, <<"A","V","E","N">>, <<"E","X","T","E","N","S","I","O","N">>, <<"A","V">>, <<"P","K">>}

RECURSIVE Join(_)
Join(ws) == IF Len(ws) = 1 THEN ws[1] ELSE ws[1] \o <<" ">> \o Join(Tail(ws))

StreetInputs ==
  {Join(ws) : ws \in UNION {[1..n -> WordPool] : n \in 1..MaxWords}}

InitAbbrev ==
  /\ pc = "s2a_entry"
  /\ arg \in StreetInputs
  /\ street = arg
  /\ old_street = None
  /\ keep_going = FALSE
  /\ passes = 0
  /\ ret = None
  /\ calls = 0
  /\ tagset = <<>>
  /\ add_type = ""
  /\ idx = 0
  /\ loc = NoLocals
  /\ result = NoResult

\* street_to_abbreviated(street_to_abbreviated(s)): the value returned is the next argument
Reapply ==
  /\ pc = "s2a_return"
  /\ calls < MaxCalls
  /\ arg' = ret
  /\ street' = ret
  /\ calls' = calls + 1
  /\ pc' = "s2a_entry"
  /\ UNCHANGED <<nvars, old_street, keep_going, passes, ret>>

NextAbbrev == S2AEnter \/ S2APass \/ S2AReturn \/ Reapply

SpecAbbrev == InitAbbrev /\ [][NextAbbrev]_vars

-----------------------------------------------------------------------------
(* Properties of normalize_address, under Spec *)

Returned == pc = "returned"
Ended == pc \in {"returned", "raised"}
\* the tagger returned a street address without an AddressNumber tag
NoNumberTagged ==
  Ended /\ add_type = "Street Address" /\ ~HasTag(tagset, "AddressNumber")

IsPrefix(p, s) == Len(p) <= Len(s) /\ SubSeq(s, 1, Len(p)) = p

\* C1 as claimed: a tag mapping without AddressNumber always fails with the
\* reason "Missing street number".
C1_AlwaysMissingStreetNumber ==
  NoNumberTagged =>
    result.kind = "AddressUnparsable" /\ result.reason = "Missing street number"

\* C1 amended: a tag mapping without AddressNumber never yields an Address; it
\* fails, and with the reason "Missing street number" whenever the pass over
\* the tags came to its end; a pass that raised gave its own reason.
C1_NoNumberNeverAnAddress ==
  NoNumberTagged =>
    /\ result.kind = "AddressUnparsable"
    /\ IF idx > Len(tagset)
         THEN result.reason = "Missing street number"
         ELSE result.reason \in
                {"Unexpected Tag: " \o tagset[idx][1],
                 "Unexpected Tag Scenario: StreetNamePreType"}

\* C1 witness: a mapping with a street name, city, state and zip but no
\* number has failed with "Missing street number".
C1_Witness ==
  /\ NoNumberTagged
  /\ HasTag(tagset, "StreetName") /\ HasTag(tagset, "PlaceName")
  /\ HasTag(tagset, "StateName") /\ HasTag(tagset, "ZipCode")
  /\ result.kind = "AddressUnparsable"
  /\ result.reason = "Missing street number"

\* C2: every Address returned has five non-empty fields.
\* The code breaks it: a PlaceName of "39730" alone leaves the city empty.
C2_AllFieldsNonEmpty ==
  Returned =>
    /\ result.kind = "Address"
    /\ result.number # <<>> /\ result.street # <<>> /\ result.city # <<>>
    /\ result.state # <<>> /\ result.zipc # <<>>

OneDirectional ==
  HasTag(tagset, "StreetNamePreDirectional") # HasTag(tagset, "StreetNamePostDirectional")
TheDirectional ==
  IF HasTag(tagset, "StreetNamePreDirectional")
    THEN "StreetNamePreDirectional" ELSE "StreetNamePostDirectional"

\* C3: with one directional tag, its fragment stands before the abbreviated
\* street name when the tag was iterated before StreetName, and after it when
\* iterated after StreetName, whichever of the two names the tag has.
C3_DirectionalByArrival ==
  (Returned /\ OneDirectional) =>
    LET d == Upper(Get(tagset, TheDirectional))
        name == Upper(ret)
    IN IF Pos(tagset, TheDirectional) < Pos(tagset, "StreetName")
         THEN IsPrefix(d \o <<" ">> \o name, result.street)
         ELSE IsPrefix(name \o <<" ">> \o d, result.street)

\* C3 witness: an Address whose only directional is tagged
\* StreetNamePostDirectional but was iterated before StreetName.
C3_Witness ==
  /\ Returned
  /\ OneDirectional
  /\ TheDirectional = "StreetNamePostDirectional"
  /\ Pos(tagset, TheDirectional) < Pos(tagset, "StreetName")

\* the fragment of tag t followed by a space, or nothing when t is absent
Opt(t) == IF HasTag(tagset, t) THEN Get(tagset, t) \o <<" ">> ELSE <<>>
\* a space followed by s, or nothing when s is None or empty
Sp(s) == IF Truthy(s) THEN <<" ">> \o s ELSE <<>>
OptAfter(t) == IF HasTag(tagset, t) THEN <<" ">> \o Get(tagset, t) ELSE <<>>

\* what the abbreviation is to be applied to: pre-modifier and pre-type,
\* street name, post-type
ToAbbreviate ==
  (IF HasTag(tagset, "StreetNamePreType")
     THEN Opt("StreetNamePreModifier") \o Opt("StreetNamePreType") ELSE <<>>)
  \o Get(tagset, "StreetName") \o OptAfter("StreetNamePostType")

\* C8: the street of every Address is the uppercased join of directional-pre,
\* the abbreviation of exactly (pre-modifier and pre-type, street name,
\* post-type), directional-post, the sub-address pair and the occupancy pair.
C8_StreetAssembly ==
  Returned =>
    /\ arg = ToAbbreviate
    /\ result.street =
         Upper((IF Truthy(loc.street_directional_pre)
                  THEN loc.street_directional_pre \o <<" ">> ELSE <<>>)
               \o ret
               \o Sp(loc.street_directional_post)
               \o (IF HasTag(tagset, "SubaddressType")
                     THEN OptAfter("SubaddressType") \o OptAfter("SubaddressIdentifier")
                     ELSE <<>>)
               \o (IF HasTag(tagset, "OccupancyType")
                     THEN OptAfter("OccupancyType") \o OptAfter("OccupancyIdentifier")
                     ELSE <<>>))

\* C8 witness: an Address built from every part.
C8_Witness ==
  /\ Returned
  /\ \A t \in {"StreetNamePreModifier", "StreetNamePreType", "StreetNamePostType",
               "StreetNamePreDirectional", "StreetNamePostDirectional",
               "SubaddressType", "SubaddressIdentifier",
               "OccupancyType", "OccupancyIdentifier"} : HasTag(tagset, t)
  /\ ret # arg

\* C9: with a ZipPlus4 tag, the zip of the Address is the recorded zip (the
\* ZipCode fragment, or the zip found in the PlaceName fragment), a hyphen and
\* the ZipPlus4 fragment.
\* The code breaks it: without a ZipCode tag the ZipPlus4 fragment is dropped.
C9_PlusFourAppended ==
  (Returned /\ HasTag(tagset, "ZipPlus4")) =>
    \E z \in (IF HasTag(tagset, "ZipCode") THEN {Get(tagset, "ZipCode")} ELSE {})
             \cup (IF HasTag(tagset, "PlaceName")
                     THEN {ZipsSearch(Get(tagset, "PlaceName"))} \ {None} ELSE {}) :
       result.zipc = z \o <<"-">> \o Get(tagset, "ZipPlus4")

\* C10: the step of the pass at PlaceName: with a zip match in the fragment
\* and no zip recorded yet, the zip becomes the first match and the city the
\* fragment without it, trimmed; with a zip recorded, the zip stays and the
\* city is the fragment as it is.
C10_EmbeddedZip ==
  [][AtTag({"PlaceName"}) =>
       LET m == ZipsSearch(val) IN
         /\ (m # None /\ loc.zipc = None) =>
              /\ loc'.zipc = m
              /\ loc'.city = Strip(Replace(val, m, <<>>))
         /\ loc.zipc # None =>
              /\ loc'.zipc = loc.zipc
              /\ loc'.city = val]_vars

\* C10 witness: the pass has taken the first of two zips out of the PlaceName
\* fragment "12345 Troy 39730-9483".
C10_Witness ==
  /\ pc = "for"
  /\ loc.zipc = <<"1","2","3","4","5">>
  /\ loc.city = <<"T","r","o","y"," ","3","9","7","3","0","-","9","4","8","3">>

\* the failure has a reason of the form "Unexpected Tag: <tag>"
UnexpectedTagRaised ==
  /\ pc = "raised"
  /\ result.kind = "AddressUnparsable"
  /\ \E t \in AllTags : result.reason = "Unexpected Tag: " \o t

\* C11: normalize_address fails with a reason of the form "Unexpected Tag:
\* <tag>" only if the tag mapping holds a tag outside the vocabulary; a mapping
\* whose tags are all of the vocabulary never fails with that reason.
\* The code breaks it: SubaddressType without SubaddressIdentifier fails its
\* elif, falls to the else branch and is reported as an unexpected tag.
C11_UnexpectedTagOnlyOutsideVocabulary ==
  UnexpectedTagRaised =>
    \E k \in 1..Len(tagset) : tagset[k][1] \notin Vocabulary

-----------------------------------------------------------------------------
(* Properties of street_to_abbreviated, under SpecAbbrev *)

\* the space-delimited words of s
WordsOf(s) ==
  {SubSeq(s, a, b) : <<a, b>> \in
     {p \in (1..Len(s)) \X (1..Len(s)) :
        /\ p[1] <= p[2]
        /\ (p[1] = 1 \/ s[p[1] - 1] = " ")
        /\ (p[2] = Len(s) \/ s[p[2] + 1] = " ")
        /\ \A k \in p[1]..p[2] : s[k] # " "}}

FirstCallReturned == pc = "s2a_return" /\ calls = 0

\* C4: every word of the input that is not a table key is, uppercased, a word
\* of the result: no key is rewritten inside a longer word.
\* The code breaks it: "Fake WESTHAVEN AVEN" returns "FAKE WESTHAVE AVE".
C4_NoRewriteInsideWord ==
  FirstCallReturned =>
    \A w \in WordsOf(Upper(arg)) : w \notin Keys => w \in WordsOf(Upper(ret))

\* C5: street_to_abbreviated applied to its own result returns that result.
C5_Idempotent ==
  (pc = "s2a_return" /\ calls >= 1) => ret = arg

\* C5 witness: the second call, on the result "FAKE AVE EXT" of a first call
\* that took three passes, has returned.
C5_Witness ==
  pc = "s2a_return" /\ calls = 1 /\ ret = <<"F","A","K","E"," ","A","V","E"," ","E","X","T">>

\* C6: the while loop ends: no call is still looping after MaxPasses
\* iterations (the replacements neither cycle nor grow for ever), and the
\* iteration that leaves the string unchanged, and no other, ends the loop.
C6_Terminates ==
  [][/\ (pc' = "s2a_loop" /\ keep_going') => passes' < MaxPasses
     /\ (pc = "s2a_loop" /\ keep_going) =>
          (keep_going' <=> street' # old_street)]_vars

\* C6 witness: a call whose replacement lengthened the string (PK to PARK) has returned.
C6_Witness ==
  FirstCallReturned /\ arg = <<"F","a","k","e"," ","P","K">> /\ ret = <<"F","A","K","E"," ","P","A","R","K">>

\* C7: the result holds no whole word that is a table key mapped to something
\* other than itself.
\* The code breaks it: "AV" returns "AV", "Fake AV PK" returns "FAKE AV PARK".
C7_EveryKeyWordAbbreviated ==
  FirstCallReturned =>
    \A w \in WordsOf(ret) : w \in Keys => Lookup(w) = w

=============================================================================
